---- MODULE Spec2Model ----
(***************************************************************************)
(* Model of merge_bible_references.py: merge_json_files (the Merger),      *)
(* analyze_data (the Analyzer) and the __main__ block that runs one after  *)
(* the other in the directory that holds the script, the input files and   *)
(* the output file merged_bible_references.json.                           *)
(*                                                                         *)
(* A JSON text is modelled by the value json.load gives for it:            *)
(*   - a string is a sequence of one-character strings;                    *)
(*   - a JSON object keeps the order of its keys (Python dicts do), so a   *)
(*     file and merged_data are sequences of [id, rec] entries with        *)
(*     pairwise different ids;                                             *)
(*   - a verse record is [isObj, hasV, v, rKind, r]: isObj = FALSE is a    *)
(*     JSON number (the file said "A": 5); rKind is "none" (no key r),     *)
(*     "map" (r is an object, the function r) or "list" (r is the JSON     *)
(*     array [1]: it has a len() but no update()).                         *)
(***************************************************************************)
EXTENDS Integers, Sequences, FiniteSets, TLC

VARIABLES
    dir,          \* the input *.json files of the directory: name -> content
    outFile,      \* content of merged_bible_references.json in that directory
    pc,           \* position of the running program
    json_files,   \* merge_json_files: the sorted glob result
    idx,          \* merge_json_files: index in json_files of the next file
    merged_data,  \* merge_json_files: the accumulator
    returned,     \* __main__: the value merge_json_files returned
    books,        \* analyze_data: the tally
    processed,    \* console: names in the "Processing: ..." notices, in order
    raised,       \* console: what the last processed file reported
    preFile,      \* history: merged_data when the last processed file was opened
    writeResult,  \* console: "Done! File size" ("ok") or "Error saving file" ("failed")
    noData,       \* console: "No data to analyze." was printed
    crashAt,      \* where an uncaught exception ended the run ("none" if none did)
    prevOut       \* history: [written, content] of the output of the previous run

vars == <<dir, outFile, pc, json_files, idx, merged_data, returned, books,
          processed, raised, preFile, writeResult, noData, crashAt, prevOut>>

----------------------------------------------------------------------------
(* Bounds and the universe of inputs *)

\* most verses a.json holds (n.json holds at most one, z.json any number the
\* identifiers allow)
MaxVersesA == 1

\* longest v string of the analysis inputs
MaxVLen == 3

OUTPUT_NAME == "merged_bible_references.json"

\* the names a file of the directory can have, in the order sorted() gives them
SortedNames == <<"a.json", OUTPUT_NAME, "n.json", "z.json">>

InputNames == {"a.json", "n.json", "z.json"}

VerseIds == {"A", "B"}

EmptyMap == [k \in {} |-> 0]

Obj(hasV, v, rKind, r) ==
    [isObj |-> TRUE, hasV |-> hasV, v |-> v, rKind |-> rKind, r |-> r]

\* "A": 5
NumRec == [isObj |-> FALSE, hasV |-> FALSE, v |-> <<>>, rKind |-> "none", r |-> EmptyMap]

Genesis11 == <<"G", " ", "1">>
Exodus11 == <<"E", " ", "1">>

\* {"v": "G 1", "r": {"x": 1}}
RecP == Obj(TRUE, Genesis11, "map", "x" :> 1)
\* {"v": "E 1", "r": {"x": 2, "y": 2}}
RecQ == Obj(TRUE, Exodus11, "map", ("x" :> 2) @@ ("y" :> 2))
\* {"v": "E 1"}
RecN == Obj(TRUE, Exodus11, "none", EmptyMap)
\* {"r": [1]}
RecL == Obj(FALSE, <<>>, "list", EmptyMap)

MergeRecs == {RecP, RecQ, RecN, RecL, NumRec}

Missing == [kind |-> "missing", entries |-> <<>>]
\* a file json.load cannot read: malformed JSON, I/O error, decoding error
BadFile == [kind |-> "bad", entries |-> <<>>]
ObjFile(es) == [kind |-> "object", entries |-> es]

Entry(id, rec) == [id |-> id, rec |-> rec]

\* the entry lists of at most n entries with pairwise different ids
RECURSIVE EntrySeqs(_, _)
EntrySeqs(n, Recs) ==
    IF n = 0 THEN {<<>>}
    ELSE LET shorter == EntrySeqs(n - 1, Recs)
         IN  shorter \cup
             {Append(q[1], Entry(q[2], q[3])) :
                 q \in {t \in shorter \X VerseIds \X Recs :
                           /\ Len(t[1]) = n - 1
                           /\ \A k \in 1..Len(t[1]) : t[1][k].id # t[2]}}

\* what a file of the directory can be: absent, unreadable, or a JSON object of
\* at most n verses
Contents(n, Recs) == {Missing, BadFile} \cup {ObjFile(es) : es \in EntrySeqs(n, Recs)}

----------------------------------------------------------------------------
(* merge_json_files *)

Ids(md) == {md[i].id : i \in 1..Len(md)}

IndexOf(md, verse_id) == CHOOSE i \in 1..Len(md) : md[i].id = verse_id

Lookup(md, verse_id) == md[IndexOf(md, verse_id)].rec

\* 'r' in verse_data, for a record that is a JSON object
HasR(rec) == rec.rKind # "none"

\* dict.update with a first-wins slip on colliding keys
UpdateR_KeepExisting(old, new) ==
    [k \in DOMAIN old \cup DOMAIN new |-> IF k \in DOMAIN old THEN old[k] ELSE new[k]]

\* dict.update: new keys are added, colliding keys take the new value
UpdateR(old, new) ==
    [k \in DOMAIN old \cup DOMAIN new |-> IF k \in DOMAIN new THEN new[k] ELSE old[k]]

\* whether the body of the loop over data.items() raises for this entry:
\*   'r' in 5                          TypeError
\*   'r' in merged_data[verse_id]      TypeError when that record is 5
\*   [1].update(...)                   AttributeError
\*   {...}.update([1])                 TypeError, before anything is changed
EntryRaises(md, verse_id, verse_data) ==
    /\ verse_id \in Ids(md)
    /\ \/ ~verse_data.isObj
       \/ /\ HasR(verse_data)
          /\ \/ ~Lookup(md, verse_id).isObj
             \/ /\ HasR(Lookup(md, verse_id))
                /\ \/ Lookup(md, verse_id).rKind = "list"
                   \/ verse_data.rKind = "list"

\* the loop body with a last-wins slip: a duplicate replaces the whole record
MergeEntry_Overwrite(md, verse_id, verse_data) ==
    IF verse_id \in Ids(md)
    THEN [md EXCEPT ![IndexOf(md, verse_id)].rec = verse_data]
    ELSE Append(md, Entry(verse_id, verse_data))

\* the loop body with a slip that inserts a new identifier only into an empty
\* accumulator
MergeEntry_DropNew(md, verse_id, verse_data) ==
    IF verse_id \in Ids(md)
    THEN IF HasR(verse_data) /\ HasR(Lookup(md, verse_id))
         THEN [md EXCEPT ![IndexOf(md, verse_id)].rec.r = UpdateR(@, verse_data.r)]
         ELSE md
    ELSE IF md = <<>> THEN Append(md, Entry(verse_id, verse_data)) ELSE md

\* the body of the loop over data.items(), for an entry that does not raise
MergeEntry(md, verse_id, verse_data) ==
    IF verse_id \in Ids(md)
    THEN IF HasR(verse_data) /\ HasR(Lookup(md, verse_id))
         THEN [md EXCEPT ![IndexOf(md, verse_id)].rec.r = UpdateR(@, verse_data.r)]
         ELSE md
    ELSE Append(md, Entry(verse_id, verse_data))

\* the loop over data.items(): it ends at the first entry that raises, the
\* entries before it stay merged
RECURSIVE MergeItems(_, _, _)
MergeItems(md, data, i) ==
    IF i > Len(data) THEN [raised |-> FALSE, md |-> md]
    ELSE IF EntryRaises(md, data[i].id, data[i].rec) THEN [raised |-> TRUE, md |-> md]
    ELSE MergeItems(MergeEntry(md, data[i].id, data[i].rec), data, i + 1)

\* the try block for one file
MergeFile(md, content) ==
    IF content.kind # "object" THEN [raised |-> "parse", md |-> md]
    ELSE LET res == MergeItems(md, content.entries, 1)
         IN  [raised |-> IF res.raised THEN "merge" ELSE "none", md |-> res.md]

ContentOf(name) == IF name = OUTPUT_NAME THEN outFile ELSE dir[name]

Exists(name) == ContentOf(name).kind # "missing"

\* sorted(input_path.glob('*.json'))
SortedGlob == SelectSeq(SortedNames, Exists)

\* json.dump of the accumulator, as json.load reads it back
Dump(md) == ObjFile(md)

\* v.get('r', {}) or len(...) raises for some record of the accumulator
StatsRaise(md) == \E i \in 1..Len(md) : ~md[i].rec.isObj

----------------------------------------------------------------------------
(* analyze_data *)

\* str.split(): the maximal runs of non-blank characters of s[i..], cur being
\* the run that is open at i
RECURSIVE SplitFrom(_, _, _)
SplitFrom(s, i, cur) ==
    IF i > Len(s) THEN (IF cur = <<>> THEN <<>> ELSE <<cur>>)
    ELSE IF s[i] = " "
         THEN (IF cur = <<>> THEN SplitFrom(s, i + 1, <<>>)
               ELSE <<cur>> \o SplitFrom(s, i + 1, <<>>))
         ELSE SplitFrom(s, i + 1, Append(cur, s[i]))

split(s) == SplitFrom(s, 1, <<>>)

\* verse_data.get('v', '')
VerseRef(verse_data) == IF verse_data.hasV THEN verse_data.v ELSE <<>>

\* the loop over merged_data.items(): the tally, or the exception that ends it
RECURSIVE CountBooks(_, _, _)
CountBooks(md, i, bk) ==
    IF i > Len(md) THEN [raised |-> FALSE, books |-> bk]
    ELSE IF ~md[i].rec.isObj THEN [raised |-> TRUE, books |-> bk]
    ELSE IF VerseRef(md[i].rec) = <<>> THEN CountBooks(md, i + 1, bk)
    ELSE IF split(VerseRef(md[i].rec)) = <<>> THEN [raised |-> TRUE, books |-> bk]
    ELSE LET book == split(VerseRef(md[i].rec))[1]
             b0 == IF book \in DOMAIN bk THEN bk ELSE bk @@ (book :> 0)
         IN  CountBooks(md, i + 1, [b0 EXCEPT ![book] = @ + 1])

----------------------------------------------------------------------------
(* The program: __main__ runs merge_json_files, then analyze_data *)

Fresh ==
    /\ pc = "start"
    /\ json_files = <<>>
    /\ idx = 0
    /\ merged_data = <<>>
    /\ returned = <<>>
    /\ books = EmptyMap
    /\ processed = <<>>
    /\ raised = "none"
    /\ preFile = <<>>
    /\ writeResult = "none"
    /\ noData = FALSE
    /\ crashAt = "none"

\* the directories the merge is checked on
MergeDirs ==
    {("a.json" :> a) @@ ("n.json" :> n) @@ ("z.json" :> z) :
        a \in Contents(MaxVersesA, MergeRecs),
        n \in Contents(1, MergeRecs),
        z \in Contents(Cardinality(VerseIds), MergeRecs)}

Alphabet == {" ", "G", "E"}

Strings(n) == UNION {[1..k -> Alphabet] : k \in 0..n}

\* records without r whose v is absent or any string of at most MaxVLen characters
AnalyzeRecs ==
    {Obj(FALSE, <<>>, "none", EmptyMap)} \cup
    {Obj(TRUE, v, "none", EmptyMap) : v \in Strings(MaxVLen)}

\* the directories the analysis is checked on: a.json alone
AnalyzeDirs ==
    {("a.json" :> a) @@ ("n.json" :> Missing) @@ ("z.json" :> Missing) :
        a \in Contents(Cardinality(VerseIds), AnalyzeRecs)}

Init ==
    /\ dir \in MergeDirs
    /\ outFile = Missing
    /\ prevOut = [written |-> FALSE, content |-> Missing]
    /\ Fresh

\* lines 20-34 without the early return: an empty list goes on to the totals
Enumerate_NoEarlyReturn ==
    /\ pc = "start"
    /\ json_files' = SortedGlob
    /\ merged_data' = <<>>
    /\ idx' = 1
    /\ pc' = IF SortedGlob = <<>> THEN "stats" ELSE "merge"
    /\ UNCHANGED <<dir, outFile, returned, books, processed, raised, preFile,
                   writeResult, noData, crashAt, prevOut>>

\* lines 20-34: list the files; with none, return the empty mapping at once
Enumerate ==
    /\ pc = "start"
    /\ json_files' = SortedGlob
    /\ merged_data' = <<>>
    /\ idx' = 1
    /\ pc' = IF SortedGlob = <<>> THEN "analyze" ELSE "merge"
    /\ returned' = IF SortedGlob = <<>> THEN <<>> ELSE returned
    /\ UNCHANGED <<dir, outFile, books, processed, raised, preFile,
                   writeResult, noData, crashAt, prevOut>>

\* lines 36-55 with the except clause leaving the loop (break for continue)
ProcessFile_AbortOnError ==
    /\ pc = "merge"
    /\ idx <= Len(json_files)
    /\ LET res == MergeFile(merged_data, ContentOf(json_files[idx]))
       IN  /\ merged_data' = res.md
           /\ raised' = res.raised
           /\ pc' = IF idx = Len(json_files) \/ res.raised # "none" THEN "stats" ELSE "merge"
    /\ processed' = Append(processed, json_files[idx])
    /\ preFile' = merged_data
    /\ idx' = idx + 1
    /\ UNCHANGED <<dir, outFile, json_files, returned, books, writeResult, noData,
                   crashAt, prevOut>>

\* lines 36-55: one pass of the loop over json_files
ProcessFile ==
    /\ pc = "merge"
    /\ idx <= Len(json_files)
    /\ LET res == MergeFile(merged_data, ContentOf(json_files[idx]))
       IN  /\ merged_data' = res.md
           /\ raised' = res.raised
    /\ processed' = Append(processed, json_files[idx])
    /\ preFile' = merged_data
    /\ idx' = idx + 1
    /\ pc' = IF idx = Len(json_files) THEN "stats" ELSE "merge"
    /\ UNCHANGED <<dir, outFile, json_files, returned, books, writeResult, noData,
                   crashAt, prevOut>>

\* lines 57-63: the totals; an exception here is caught by nothing
CountStatistics ==
    /\ pc = "stats"
    /\ pc' = IF StatsRaise(merged_data) THEN "crashed" ELSE "save"
    /\ crashAt' = IF StatsRaise(merged_data) THEN "stats" ELSE crashAt
    /\ UNCHANGED <<dir, outFile, json_files, idx, merged_data, returned, books,
                   processed, raised, preFile, writeResult, noData, prevOut>>

\* what the write leaves in the output file: the dump when it succeeds, the
\* file as it was when open() raises, an unreadable truncated file when the
\* dump raises part way
Written(outcome, md) ==
    IF outcome = "ok" THEN Dump(md)
    ELSE IF outcome = "open raised" THEN outFile
    ELSE BadFile

WriteOutcomes == {"ok", "open raised", "dump raised"}

\* lines 65-77 with a slip that returns a fresh mapping from the except clause
SaveMerged_LoseOnFailure ==
    /\ pc = "save"
    /\ \E outcome \in WriteOutcomes :
          /\ outFile' = Written(outcome, merged_data)
          /\ writeResult' = IF outcome = "ok" THEN "ok" ELSE "failed"
          /\ returned' = IF outcome = "ok" THEN merged_data ELSE <<>>
    /\ pc' = "analyze"
    /\ UNCHANGED <<dir, json_files, idx, merged_data, books, processed, raised,
                   preFile, noData, crashAt, prevOut>>

\* lines 65-77: write the output file and return the accumulator, whether the
\* write succeeded or raised
SaveMerged ==
    /\ pc = "save"
    /\ \E outcome \in WriteOutcomes :
          /\ outFile' = Written(outcome, merged_data)
          /\ writeResult' = IF outcome = "ok" THEN "ok" ELSE "failed"
    /\ returned' = merged_data
    /\ pc' = "analyze"
    /\ UNCHANGED <<dir, json_files, idx, merged_data, books, processed, raised,
                   preFile, noData, crashAt, prevOut>>

\* lines 79-100, called at line 122
AnalyzeData ==
    /\ pc = "analyze"
    /\ LET res == CountBooks(returned, 1, EmptyMap)
       IN  IF returned = <<>>
           THEN noData' = TRUE /\ books' = books /\ pc' = "final" /\ crashAt' = crashAt
           ELSE /\ noData' = noData
                /\ books' = res.books
                /\ pc' = IF res.raised THEN "crashed" ELSE "final"
                /\ crashAt' = IF res.raised THEN "analyze" ELSE crashAt
    /\ UNCHANGED <<dir, outFile, json_files, idx, merged_data, returned, processed,
                   raised, preFile, writeResult, prevOut>>

\* lines 124-126
Complete ==
    /\ pc = "final"
    /\ pc' = "done"
    /\ UNCHANGED <<dir, outFile, json_files, idx, merged_data, returned, books,
                   processed, raised, preFile, writeResult, noData, crashAt, prevOut>>

\* lines 102-121: the script is run again in the same directory, nothing in
\* the directory having been changed in between
Rerun ==
    /\ pc \in {"done", "crashed"}
    /\ prevOut' = [written |-> writeResult = "ok", content |-> outFile]
    /\ pc' = "start"
    /\ json_files' = <<>>
    /\ idx' = 0
    /\ merged_data' = <<>>
    /\ returned' = <<>>
    /\ books' = EmptyMap
    /\ processed' = <<>>
    /\ raised' = "none"
    /\ preFile' = <<>>
    /\ writeResult' = "none"
    /\ noData' = FALSE
    /\ crashAt' = "none"
    /\ UNCHANGED <<dir, outFile>>

Next ==
    \/ Enumerate
    \/ ProcessFile
    \/ CountStatistics
    \/ SaveMerged
    \/ AnalyzeData
    \/ Complete
    \/ Rerun

Spec == Init /\ [][Next]_vars

InitAnalyze ==
    /\ dir \in AnalyzeDirs
    /\ outFile = Missing
    /\ prevOut = [written |-> FALSE, content |-> Missing]
    /\ Fresh

SpecAnalyze == InitAnalyze /\ [][Next]_vars

----------------------------------------------------------------------------
(* What the claims speak about *)

Min(S) == CHOOSE x \in S : \A y \in S : x <= y
Max(S) == CHOOSE x \in S : \A y \in S : x >= y

\* the content the running program read, or will read, under a name: the output
\* file of the previous run is an input of this one
InputOf(name) == IF name = OUTPUT_NAME THEN prevOut.content ELSE dir[name]

NumFiles == Len(json_files)

Input(i) == InputOf(json_files[i])

ObjectFiles == {i \in 1..NumFiles : Input(i).kind = "object"}

FilesWith(id) == {i \in ObjectFiles : id \in Ids(Input(i).entries)}

RecIn(i, id) == Lookup(Input(i).entries, id)

IdsInFiles == UNION {Ids(Input(i).entries) : i \in ObjectFiles}

Count(md, id) == Cardinality({i \in 1..Len(md) : md[i].id = id})

EntrySet(md) == {md[i] : i \in 1..Len(md)}

\* the record contains the key r
ContainsR(rec) == rec.isObj /\ rec.rKind # "none"

\* the fields of a record other than r
NonR(rec) == [isObj |-> rec.isObj, hasV |-> rec.hasV, v |-> rec.v]

\* the files whose record for id has an r that is a mapping
WithR(id) == {i \in FilesWith(id) : RecIn(i, id).isObj /\ RecIn(i, id).rKind = "map"}

\* the union of the r sub-mappings the files give id, a key taking the value of
\* the last file that has it
UnionR(id) ==
    [k \in UNION {DOMAIN RecIn(i, id).r : i \in WithR(id)} |->
        RecIn(Max({i \in WithR(id) : k \in DOMAIN RecIn(i, id).r}), id).r[k]]

\* every file that parses has the documented shape: each record an object whose
\* r, if present, is an object
WellShaped ==
    \A i \in ObjectFiles : \A k \in 1..Len(Input(i).entries) :
        Input(i).entries[k].rec.isObj /\ Input(i).entries[k].rec.rKind # "list"

\* the loop over json_files has ended
AfterMerge == pc \in {"stats", "save", "analyze", "final", "done"} \/ crashAt # "none"

\* merge_json_files has returned
ReturnedFromMerge == pc \in {"analyze", "final", "done"} \/ crashAt = "analyze"

\* the file the last pass of the loop processed
LastFile == Input(idx - 1)

DisjointIds ==
    \A i, j \in ObjectFiles : i # j => Ids(Input(i).entries) \cap Ids(Input(j).entries) = {}

RECURSIVE SumVerses(_)
SumVerses(i) == IF i = 0 THEN 0 ELSE SumVerses(i - 1) + Len(Input(i).entries)

\* the fold of the try block over the files i..NumFiles, the unreadable ones
\* left out when skipBad
RECURSIVE MergeFrom(_, _, _)
MergeFrom(md, i, skipBad) ==
    IF i > NumFiles THEN md
    ELSE IF skipBad /\ Input(i).kind = "bad" THEN MergeFrom(md, i + 1, skipBad)
    ELSE MergeFrom(MergeFile(md, Input(i)).md, i + 1, skipBad)

HasToken(s) == \E k \in 1..Len(s) : s[k] # " "

\* the first maximal run of non-blank characters of s
FirstToken(s) ==
    LET i == Min({k \in 1..Len(s) : s[k] # " "})
        j == Max({k \in i..Len(s) : \A m \in i..k : s[m] # " "})
    IN  SubSeq(s, i, j)

\* the verses with a usable v: present, non-empty and holding a token
Usable(md) == {i \in 1..Len(md) : md[i].rec.isObj /\ md[i].rec.hasV /\ HasToken(md[i].rec.v)}

ExpectedTally(md) ==
    [b \in {FirstToken(md[i].rec.v) : i \in Usable(md)} |->
        Cardinality({i \in Usable(md) : FirstToken(md[i].rec.v) = b})]

----------------------------------------------------------------------------
(* The claims *)

\* C1, as stated (on inputs of the documented shape): after the merge every
\* identifier of an input file is in the combined mapping exactly once, and an
\* identifier that is in several files has as its r the union of all r
\* sub-mappings the files give it, the later file winning on a key.
C1_UnionOfAllR ==
    (AfterMerge /\ WellShaped) =>
        \A id \in IdsInFiles :
            /\ Count(merged_data, id) = 1
            /\ (Cardinality(FilesWith(id)) > 1 /\ WithR(id) # {}) =>
                  /\ Lookup(merged_data, id).rKind = "map"
                  /\ Lookup(merged_data, id).r = UnionR(id)

\* C1, amended: on inputs of the documented shape, after the merge every
\* identifier of an input file is in the combined mapping exactly once; if the
\* first file that has the identifier gives it an r, its r is the union of all
\* r sub-mappings the files give it, the later file winning on a key; if the
\* first file gives it no r, its entry is the first file's record, without r.
C1_UnionWhenFirstHasR ==
    (AfterMerge /\ WellShaped) =>
        \A id \in IdsInFiles :
            /\ Count(merged_data, id) = 1
            /\ IF HasR(RecIn(Min(FilesWith(id)), id))
               THEN /\ Lookup(merged_data, id).rKind = "map"
                    /\ Lookup(merged_data, id).r = UnionR(id)
               ELSE Lookup(merged_data, id) = RecIn(Min(FilesWith(id)), id)

\* C1 witness: an identifier of two files, both with r, whose merged r is a
\* union that neither file holds, and an identifier whose first file has no r
\* while a later file has one.
C1_Witness ==
    /\ pc = "stats"
    /\ WellShaped
    /\ \E id \in IdsInFiles :
          /\ Cardinality(WithR(id)) > 1
          /\ HasR(RecIn(Min(FilesWith(id)), id))
          /\ \A i \in WithR(id) : Lookup(merged_data, id).r # RecIn(i, id).r
    /\ \E id \in IdsInFiles :
          /\ ~HasR(RecIn(Min(FilesWith(id)), id))
          /\ WithR(id) # {}

\* C2: a pass of the loop changes an entry that was already in the combined
\* mapping only in its r, and only when both that entry and the file's record
\* for the identifier contain r; the non-r fields and the position of every
\* earlier entry stay.
C2_DuplicateFrame ==
    idx > 1 =>
        /\ Len(preFile) <= Len(merged_data)
        /\ \A i \in 1..Len(preFile) :
              /\ merged_data[i].id = preFile[i].id
              /\ NonR(merged_data[i].rec) = NonR(preFile[i].rec)
              /\ merged_data[i].rec # preFile[i].rec =>
                    /\ LastFile.kind = "object"
                    /\ preFile[i].id \in Ids(LastFile.entries)
                    /\ ContainsR(preFile[i].rec)
                    /\ ContainsR(Lookup(LastFile.entries, preFile[i].id))

\* C2 witness: a file has just been merged that holds two identifiers met
\* before; the r of one existing entry was changed while its v stayed different
\* from the file's, and the other entry, without r, met a record with r.
C2_Witness ==
    /\ idx > 1
    /\ LastFile.kind = "object"
    /\ \E i \in 1..Len(preFile) :
          /\ merged_data[i].rec.r # preFile[i].rec.r
          /\ preFile[i].id \in Ids(LastFile.entries)
          /\ Lookup(LastFile.entries, preFile[i].id).v # merged_data[i].rec.v
    /\ \E i \in 1..Len(preFile) :
          /\ ~ContainsR(preFile[i].rec)
          /\ preFile[i].id \in Ids(LastFile.entries)
          /\ ContainsR(Lookup(LastFile.entries, preFile[i].id))

\* C3: when the identifier sets of the files are pairwise disjoint, the mapping
\* merge_json_files returns is the union of the files' mappings and holds as
\* many verses as the files together.
C3_DisjointUnion ==
    (ReturnedFromMerge /\ NumFiles > 0 /\ DisjointIds) =>
        /\ EntrySet(returned) = UNION {EntrySet(Input(i).entries) : i \in ObjectFiles}
        /\ Len(returned) = SumVerses(NumFiles)

\* C3 witness: files with verses, pairwise disjoint, have been merged into a
\* mapping of two verses.
C3_Witness ==
    /\ ReturnedFromMerge
    /\ DisjointIds
    /\ Cardinality({i \in ObjectFiles : Input(i).entries # <<>>}) >= 2
    /\ Len(returned) >= 2

\* C4: a file that cannot be read or parsed does not end the merge: every file
\* of the list is processed, and the returned mapping is the one the readable
\* files alone, in the same order, give.
C4_BadFileSkipped ==
    (ReturnedFromMerge /\ NumFiles > 0) =>
        /\ processed = json_files
        /\ returned = MergeFrom(<<>>, 1, TRUE)

\* C4 witness: an unreadable file came before a file whose verses are in the
\* returned mapping.
C4_Witness ==
    /\ ReturnedFromMerge
    /\ \E i, j \in 1..NumFiles :
          /\ i < j
          /\ Input(i).kind = "bad"
          /\ Input(j).kind = "object"
          /\ Input(j).entries # <<>>
          /\ EntrySet(Input(j).entries) \subseteq EntrySet(returned)

\* C5: whatever the directory holds, no exception ends the run before the final
\* completion step.
C5_RunsToCompletion == crashAt = "none"

\* C6: a run that follows a run in the unchanged directory writes an output file
\* with the same verses: the same identifiers, each with the same record.
C6_RerunSameContent ==
    (writeResult = "ok" /\ prevOut.written) =>
        EntrySet(outFile.entries) = EntrySet(prevOut.content.entries)

\* C7: with no .json file in the directory merge_json_files returns the empty
\* mapping, raises nothing, never writes or creates the output file, and
\* analyze_data reports that there is no data and builds no tally.
C7_NoFiles ==
    (json_files = <<>> /\ pc # "start") =>
        /\ pc \in {"analyze", "final", "done"}
        /\ returned = <<>>
        /\ writeResult = "none"
        /\ outFile = Missing
        /\ crashAt = "none"
        /\ pc \in {"final", "done"} => (noData /\ books = EmptyMap)

\* C7 witness: a run in a directory without .json files has completed.
C7_Witness == json_files = <<>> /\ pc = "done" /\ noData

\* C8: when the write fails, merge_json_files still returns the whole combined
\* mapping, the one the files give, and the analysis runs on it.
C8_ReturnedDespiteWriteFailure ==
    writeResult = "failed" =>
        /\ ReturnedFromMerge
        /\ returned = merged_data
        /\ returned = MergeFrom(<<>>, 1, FALSE)
        /\ pc \in {"final", "done"} =>
              IF returned = <<>> THEN noData
              ELSE ~noData /\ books = CountBooks(returned, 1, EmptyMap).books

\* C8 witness: the write failed and the analysis of a non-empty mapping ended.
C8_Witness == writeResult = "failed" /\ pc = "done" /\ returned # <<>> /\ books # EmptyMap

\* C9: for a non-empty mapping analyze_data ends without an error, and the
\* tally maps each book to the number of verses whose v is non-empty and has
\* that book as first token; verses without a usable v are left out.
C9_TallyExact ==
    (returned # <<>> /\ (pc \in {"final", "done"} \/ crashAt = "analyze")) =>
        /\ crashAt = "none"
        /\ books = ExpectedTally(returned)

\* C10: a file whose processing raised, while it was read or while one of its
\* entries was merged, has changed nothing: the combined mapping is what it was
\* when the file was opened.
C10_FileAtomic == (idx > 1 /\ raised # "none") => merged_data = preFile

====
